---- MODULE Spec2Model ----
(***************************************************************************)
(* blip: the SDRAM controller of src/blip/rtl/sdram.py and its refresh      *)
(* PendingCounter, modelled as clocked state machines.  One step of a       *)
(* specification is one rising clock edge: every register takes the value   *)
(* its m.d.sync statements compute from the registers and inputs of the     *)
(* tick that ends, and the inputs of the next tick are chosen.  The         *)
(* combinational outputs (m.d.comb) of a tick are state functions of the    *)
(* registers and the inputs of that tick.                                   *)
(***************************************************************************)
EXTENDS Integers, Naturals, Sequences, FiniteSets, TLC

VARIABLES
    \* bmc_pending_counter: the PendingCounter under test and its input
    pc, i_remove,
    \* SDRAMController registers
    state, wait, wait_state, rw_timer, init_ctr, init_refs, r_addr, r_write,
    \* SDRAMController.ref_counter (a PendingCounter)
    ref_counter,
    \* SDRAMController inputs of the current tick
    i_req, i_write, i_addr,
    \* observers: what the controller has issued since reset
    n_init_nop, n_pall, n_init_ref, n_mrs, seen_idle, in_wait,
    \* observers: ticks since the last ACTIVATE and since the last REFRESH
    since_act, since_ref,
    \* observers: the countdown the latest do() call entered State.WAIT with,
    \* and the ticks with o_grant asserted since the last ACTIVATE
    wait_n, n_grant,
    \* cover_pending_counter: its two registers, and the clock edges since
    \* its reset
    was_full, was_emptied, ticks,
    \* observer of the counter harnesses: clock edges since an increment was
    \* last scheduled
    since_add,
    \* an SDRAMMode instance, and how far the controller built with it has
    \* come: constructed, elaborated (or failed in it), and the cycles run
    mode, build,
    \* the clock domain whose driver of r_grant the build keeps
    r_grant_domain,
    \* tmds.py build_formal: the registers enc.dc_bias and real_dc_bias, and
    \* the inputs and the character enc_char of the latest tick
    tmds,
    \* tmds.py build_formal_pipe: the registers of the two encoders
    pipe,
    \* an SDRAMConfig and SDRAMMode within the bounds, and the registers of
    \* the controller built with them that decide its timing
    cfg, run,
    \* build.py Scheduler: its queue and active list, and what it has started
    \* and reported
    sched

pcVars  == <<pc, i_remove>>
regVars == <<state, wait, wait_state, rw_timer, init_ctr, init_refs, r_addr, r_write>>
inVars  == <<i_req, i_write, i_addr>>
obsVars == <<n_init_nop, n_pall, n_init_ref, n_mrs, seen_idle, in_wait,
             since_act, since_ref, wait_n, n_grant>>
ctlVars == <<regVars, ref_counter, inVars, obsVars>>
covVars == <<was_full, was_emptied, ticks, since_add>>
modeVars == <<mode, build, r_grant_domain>>
tmdsVars == <<tmds, pipe>>
cfgVars == <<cfg, run>>
vars    == <<pcVars, ctlVars, covVars, modeVars, tmdsVars, cfgVars, sched>>

Bit == {0, 1}

Max(a, b) == IF a >= b THEN a ELSE b
Min(a, b) == IF a <= b THEN a ELSE b

Pow2(n) == 2 ^ n

\* nmigen bits_for(n), n >= 0: the width of an unsigned value n
RECURSIVE BitLength(_)
BitLength(n) == IF n = 0 THEN 0 ELSE 1 + BitLength(n \div 2)
BitsFor(n) == IF n > 0 THEN BitLength(n) ELSE 1

\* Signal(range(n)): its width, and the value an assignment of v leaves in it
RangeBits(n) == BitsFor(n - 1)
Trunc(v, bits) == v % Pow2(bits)

\* bit k of a value (value[k])
BitOf(v, k) == (v \div Pow2(k)) % 2

\* the value of a signed signal of the given width that is assigned v
Signed(v, bits) ==
    LET u == v % Pow2(bits) IN IF u >= Pow2(bits - 1) THEN u - Pow2(bits) ELSE u

(***************************************************************************)
(* dvi/tmds.py: TMDSEncoder and TMDSDecoder                                *)
(***************************************************************************)
\* popcount(value) of the low n bits of v
RECURSIVE popcount(_, _)
popcount(v, n) == IF n = 0 THEN 0 ELSE BitOf(v, n - 1) + popcount(v, n - 1)

\* xored[0] = i_data[0], xored[n] = i_data[n] ^ xored[n - 1]: bits 0..n of
\* the chain as a number
RECURSIVE XoredBit(_, _)
XoredBit(d, n) ==
    IF n = 0 THEN BitOf(d, 0) ELSE (BitOf(d, n) + XoredBit(d, n - 1)) % 2
RECURSIVE Xored(_, _)
Xored(d, n) ==
    XoredBit(d, n) * Pow2(n) + (IF n = 0 THEN 0 ELSE Xored(d, n - 1))

\* mutant: every bit of the word is flipped under use_xnor
XnoredEveryBit(x, use_xnor) == IF use_xnor = 1 THEN Pow2(8) - 1 - x ELSE x

\* xnored[n] = xored[n] ^ use_xnor for odd n, xored[n] for even n: with
\* use_xnor set each odd bit is flipped (a clear bit is added, a set one
\* taken away)
Xnored(x, use_xnor) ==
    IF use_xnor = 1
    THEN x + Pow2(1) * (1 - 2 * BitOf(x, 1)) + Pow2(3) * (1 - 2 * BitOf(x, 3))
           + Pow2(5) * (1 - 2 * BitOf(x, 5)) + Pow2(7) * (1 - 2 * BitOf(x, 7))
    ELSE x

\* the data word's part of the encoder, lines 30-55: use_xnor from the
\* popcount of i_data[1:8], the xnored word, and x_bias, the 4-bit sum
\* 0b1100 + popcount(xnored)
EncodeWord(d) ==
    LET use_xnor == IF popcount(d \div 2, 7) > 3 THEN 1 ELSE 0
        xnored   == Xnored(Xored(d, 7), use_xnor)
    IN  [ xnored   |-> xnored,
          use_xnor |-> use_xnor,
          x_bias   |-> Trunc(12 + popcount(xnored, 8), 4) ]

Words == [ d \in 0..255 |-> EncodeWord(d) ]

\* ctl_char, selected by Cat(hsync, vsync)
CtlChar(hsync, vsync) ==
    CASE hsync = 0 /\ vsync = 0 -> 852
      [] hsync = 1 /\ vsync = 0 -> 171
      [] hsync = 0 /\ vsync = 1 -> 340
      [] hsync = 1 /\ vsync = 1 -> 683

\* mutant: the inversion follows use_xnor whatever the running bias is
OutputStageNoBalance(w, en_data, hsync, vsync, dc_bias) ==
    LET use_invert == w.use_xnor
        data_bias  == Trunc((IF use_invert = 1 THEN 0 - w.x_bias ELSE w.x_bias)
                            + (1 - w.use_xnor) + use_invert - 1, 4)
        word       == IF use_invert = 1 THEN Pow2(8) - 1 - w.xnored ELSE w.xnored
    IN  [ o_char  |-> IF en_data = 1
                      THEN word + (1 - w.use_xnor) * Pow2(8) + use_invert * Pow2(9)
                      ELSE CtlChar(hsync, vsync),
          dc_bias |-> IF en_data = 1 THEN Trunc(dc_bias + data_bias, 4)
                      ELSE dc_bias ]

\* the output stage of the encoder, lines 80-120, fed with the word
\* (xnored, use_xnor, x_bias) and en_data, hsync, vsync: o_char, and the
\* value dc_bias takes at the clock edge
OutputStage(w, en_data, hsync, vsync, dc_bias) ==
    LET zero_bias  == w.x_bias = 0 \/ dc_bias = 0
        same_bias  == BitOf(w.x_bias, 3) = BitOf(dc_bias, 3)
        use_invert == IF zero_bias THEN w.use_xnor
                      ELSE IF same_bias THEN 1 ELSE 0
        data_bias  == Trunc((IF use_invert = 1 THEN 0 - w.x_bias ELSE w.x_bias)
                            + (1 - w.use_xnor) + use_invert - 1, 4)
        word       == IF use_invert = 1 THEN Pow2(8) - 1 - w.xnored ELSE w.xnored
    IN  [ o_char  |-> IF en_data = 1
                      THEN word + (1 - w.use_xnor) * Pow2(8) + use_invert * Pow2(9)
                      ELSE CtlChar(hsync, vsync),
          dc_bias |-> IF en_data = 1 THEN Trunc(dc_bias + data_bias, 4)
                      ELSE dc_bias ]

\* TMDSEncoder(pipeline=False): the stage is fed from the inputs
Encoder(i_data, i_en_data, i_hsync, i_vsync, dc_bias) ==
    OutputStage(Words[i_data], i_en_data, i_hsync, i_vsync, dc_bias)

\* TMDSDecoder: xored[0] = inverted[0], xored[n] = inverted[n] ^
\* inverted[n - 1] ^ use_xnor
RECURSIVE DecodeBits(_, _, _)
DecodeBits(inv, use_xnor, n) ==
    IF n = 0 THEN BitOf(inv, 0)
    ELSE ((BitOf(inv, n) + BitOf(inv, n - 1) + use_xnor) % 2) * Pow2(n)
         + DecodeBits(inv, use_xnor, n - 1)

Decoder(i_char) ==
    LET use_xnor   == 1 - BitOf(i_char, 8)
        use_invert == BitOf(i_char, 9)
        low        == i_char % Pow2(8)
        inverted   == IF use_invert = 1 THEN Pow2(8) - 1 - low ELSE low
    IN  CASE i_char = 852 ->
               [ o_data |-> 0, o_en_data |-> 0, o_hsync |-> 0, o_vsync |-> 0 ]
          [] i_char = 171 ->
               [ o_data |-> 0, o_en_data |-> 0, o_hsync |-> 1, o_vsync |-> 0 ]
          [] i_char = 340 ->
               [ o_data |-> 0, o_en_data |-> 0, o_hsync |-> 0, o_vsync |-> 1 ]
          [] i_char = 683 ->
               [ o_data |-> 0, o_en_data |-> 0, o_hsync |-> 1, o_vsync |-> 1 ]
          [] OTHER ->
               [ o_data |-> DecodeBits(inverted, use_xnor, 7), o_en_data |-> 1,
                 o_hsync |-> 0, o_vsync |-> 0 ]

Decoded == [ c \in 0..(Pow2(10) - 1) |-> Decoder(c) ]

\* the input values of one tick: AnySeq(8), AnySeq(1), AnySeq(1), AnySeq(1)
TmdsInputs ==
    [ data : 0..(Pow2(8) - 1), en_data : Bit, hsync : Bit, vsync : Bit ]

(***************************************************************************)
(* build_formal: one encoder, its output fed to the decoder, and the       *)
(* register real_dc_bias (signed, 5 bits) that sums real_chr_bias =        *)
(* popcount(enc.o_char) - 5 over the ticks with data enabled.  i_en_data   *)
(* and enc_char are the enable input and the character of the latest tick. *)
(***************************************************************************)
TmdsReset ==
    [ dc_bias |-> 0, real_dc_bias |-> 0, i_en_data |-> 0, enc_char |-> 0 ]

ChrBias == [ c \in 0..(Pow2(10) - 1) |-> Signed(popcount(c, 10) - 5, 5) ]
real_chr_bias(o_char) == ChrBias[o_char]

FormalEdge(t, in) ==
    LET e == Encoder(in.data, in.en_data, in.hsync, in.vsync, t.dc_bias) IN
    [ dc_bias      |-> e.dc_bias,
      real_dc_bias |-> IF in.en_data = 1
                       THEN Signed(t.real_dc_bias + real_chr_bias(e.o_char), 5)
                       ELSE t.real_dc_bias,
      i_en_data    |-> in.en_data,
      enc_char     |-> e.o_char ]

(***************************************************************************)
(* build_formal_pipe: enc_pipe (pipeline=True) takes the inputs, enc_comb  *)
(* (pipeline=False) takes them registered by the harness.  w, en_data,     *)
(* hsync and vsync are enc_pipe's registers, c the registered inputs of    *)
(* enc_comb; initial is Initial().                                         *)
(***************************************************************************)
PipeReset ==
    [ w |-> [ xnored |-> 0, use_xnor |-> 0, x_bias |-> 0 ],
      en_data |-> 0, hsync |-> 0, vsync |-> 0, dc_bias_pipe |-> 0,
      c |-> [ data |-> 0, en_data |-> 0, hsync |-> 0, vsync |-> 0 ],
      dc_bias_comb |-> 0, initial |-> TRUE ]

\* the two encoders' outputs on the current tick
PipeOut(p) == OutputStage(p.w, p.en_data, p.hsync, p.vsync, p.dc_bias_pipe)
CombOut(p) ==
    Encoder(p.c.data, p.c.en_data, p.c.hsync, p.c.vsync, p.dc_bias_comb)

\* mutant: enc_pipe takes i_en_data unregistered
PipeEdgeEnableLate(p, in) ==
    [ w |-> Words[in.data],
      en_data |-> p.c.en_data, hsync |-> in.hsync, vsync |-> in.vsync,
      dc_bias_pipe |-> PipeOut(p).dc_bias,
      c |-> in,
      dc_bias_comb |-> CombOut(p).dc_bias,
      initial |-> FALSE ]

PipeEdge(p, in) ==
    [ w |-> Words[in.data],
      en_data |-> in.en_data, hsync |-> in.hsync, vsync |-> in.vsync,
      dc_bias_pipe |-> PipeOut(p).dc_bias,
      c |-> in,
      dc_bias_comb |-> CombOut(p).dc_bias,
      initial |-> FALSE ]

(***************************************************************************)
(* PendingCounter                                                          *)
(***************************************************************************)

\* PendingCounter.__init__: the derived parameters
PendingCounterParams(period, max_pending, slack_lo, slack_hi) ==
    [ period           |-> period,
      max_pending      |-> max_pending,
      bias_lo          |-> slack_lo,
      bias_hi          |-> slack_hi,
      max_pending_lo   |-> max_pending + slack_lo,
      max_pending_lohi |-> max_pending + slack_lo + slack_hi,
      timer_bits       |-> RangeBits(period + 1),
      pending_bits     |-> RangeBits(max_pending + slack_lo + slack_hi + 1) ]

\* the registers after reset: pending resets to bias_lo, the others to 0
PendingCounterReset(P) ==
    [ timer |-> 0, pending |-> P.bias_lo, add |-> 0, sub |-> 0,
      o_any |-> 0, o_full |-> 0 ]

\* pending.eq(pending + add - sub), truncated to the register's width
PendingNext(c, P) == Trunc(c.pending + c.add - c.sub, P.pending_bits)

\* timer.eq(timer + 1), overridden by timer.eq(0) when timer == period
TimerNext(c, P) ==
    IF c.timer = P.period THEN 0 ELSE Trunc(c.timer + 1, P.timer_bits)

\* add.eq(0), overridden by add.eq(1) when timer == period
AddNext(c, P) == IF c.timer = P.period THEN 1 ELSE 0

\* mutant: sub.eq(0) placed after sub.eq(i_remove)
SubNextCleared(c, remove) == 0

\* sub.eq(0), overridden by the later sub.eq(i_remove)
SubNext(c, remove) == remove

\* mutant: o_any compared with >=
AnyNextAtFloor(c, P) == IF c.pending >= P.bias_lo THEN 1 ELSE 0

\* o_any.eq(pending > bias_lo), o_full.eq(pending >= max_pending_lo)
AnyNext(c, P)  == IF c.pending > P.bias_lo THEN 1 ELSE 0
FullNext(c, P) == IF c.pending >= P.max_pending_lo THEN 1 ELSE 0

\* PendingCounter.elaborate: one clock edge
PendingCounterTick(c, remove, P) ==
    [ timer   |-> TimerNext(c, P),
      pending |-> PendingNext(c, P),
      add     |-> AddNext(c, P),
      sub     |-> SubNext(c, remove),
      o_any   |-> AnyNext(c, P),
      o_full  |-> FullNext(c, P) ]

\* the two Assert statements of PendingCounter.elaborate
AssertNoUnderflow(c) == (c.pending = 0) => (c.sub = 0)
AssertNoOverflow(c, P) == (c.pending = P.max_pending_lohi) => (c.add = 0)

(***************************************************************************)
(* bmc_pending_counter: PendingCounter(3, 5), i_remove any sequence that   *)
(* satisfies the two Assume statements                                     *)
(***************************************************************************)
BmcPeriod == 3
BmcMaxPending == 5
DefaultSlackLo == 2
DefaultSlackHi == 2

BmcParams ==
    PendingCounterParams(BmcPeriod, BmcMaxPending, DefaultSlackLo, DefaultSlackHi)

\* Assume(~(i_remove & ~o_any))
AssumeRemoveOnlyWhenAny(c, remove) == ~(remove = 1 /\ c.o_any = 0)
\* Assume(~(~i_remove & o_full))
AssumeRemoveWhenFull(c, remove) == ~(remove = 0 /\ c.o_full = 1)

BmcAssumptions(c, remove) ==
    AssumeRemoveOnlyWhenAny(c, remove) /\ AssumeRemoveWhenFull(c, remove)

(***************************************************************************)
(* SDRAMConfig and SDRAMMode: the configuration the controller is built    *)
(* with.  The widths are those of a 4M x 16 device; the timing values are  *)
(* small so that every delay is exercised.                                 *)
(***************************************************************************)
col_bits  == 8
row_bits  == 12
bank_bits == 2

c_init == 20
c_cas  == 2
c_rcd  == 2
c_ras  == 4
c_rc   == 5
c_mrd  == 2

ref_period      == 3
ref_max_pending == 9

burst_length == 2
cas_latency  == 2

\* mutant: a code for cas_latency = False
casesWithFalse == (0 :> 0) @@ (2 :> 2) @@ (3 :> 3)

\* SDRAMMode.encode: the three dictionaries.  The keys False and True are
\* the integers 0 and 1 (a Python bool hashes and compares as its integer).
bursts      == (0 :> 7) @@ (1 :> 0) @@ (2 :> 1) @@ (4 :> 2) @@ (8 :> 3)
interleaves == (0 :> 0) @@ (1 :> 1)
cases       == (2 :> 2) @@ (3 :> 3)

\* a lookup of a key that is not in its dictionary raises KeyError
Encodable(m) ==
    /\ m.burst_length \in DOMAIN bursts
    /\ m.burst_interleaved \in DOMAIN interleaves
    /\ m.cas_latency \in DOMAIN cases

\* the value returned: the three codes shifted by 0, 3 and 4 and or'ed; the
\* burst code is below 8 and the interleave code below 2, so no bits overlap
Encode(m) ==
    bursts[m.burst_length] + interleaves[m.burst_interleaved] * Pow2(3)
        + cases[m.cas_latency] * Pow2(4)

\* the mode of the modelled controller, and its encoding
ConfigMode ==
    [ burst_length |-> burst_length, burst_interleaved |-> 0,
      cas_latency |-> cas_latency ]
ModeEncode == Encode(ConfigMode)

\* class State(IntEnum)
INIT_WAIT == "INIT_WAIT"
INIT_REF  == "INIT_REF"
INIT_MRS  == "INIT_MRS"
IDLE      == "IDLE"
ACT       == "ACT"
WAIT      == "WAIT"
States == {INIT_WAIT, INIT_REF, INIT_MRS, IDLE, ACT, WAIT}

\* class Cmd(IntEnum): the 5-bit values.  WRIT and WRITA are given the values
\* of READ and READA, so in the enumeration they are aliases of them.
CmdDESL  == 0
CmdNOP   == 16
CmdBST   == 18
CmdREAD  == 20
CmdREADA == 21
CmdWRIT  == 20
CmdWRITA == 21
CmdACT   == 24
CmdPRE   == 26
CmdPALL  == 27
CmdREF   == 28
CmdMRS   == 31

(***************************************************************************)
(* SDRAMController.__init__                                                *)
(* The source writes Signal(state) and Signal(Command) for the first       *)
(* bindings of self.state and self.cmd; they are read as Signal(State),    *)
(* which resets to State.INIT_WAIT, and as the later binding               *)
(* Signal(Cmd, reset=Cmd.NOP).                                             *)
(***************************************************************************)
\* ref_counter = PendingCounter(cfg.ref_period, cfg.ref_max_pending, slack_hi=4)
RefSlackHi == 4
RefParams ==
    PendingCounterParams(ref_period, ref_max_pending, DefaultSlackLo, RefSlackHi)

max_delay == Max(Max(c_cas, c_rc), Max(c_rcd, c_mrd))
WaitBits  == RangeBits(max_delay)
RwTimerBits == RangeBits(Max(burst_length, cas_latency))

init_cycles == (c_init \div max_delay) + 1
InitCtrBits == RangeBits(init_cycles + 1)

addr_bits == col_bits + row_bits + bank_bits

\* r_addr[col_slice], r_addr[row_slice], r_addr[bank_slice]
ColOf(a)  == a % Pow2(col_bits)
RowOf(a)  == (a \div Pow2(col_bits)) % Pow2(row_bits)
BankOf(a) == (a \div Pow2(col_bits + row_bits)) % Pow2(bank_bits)

\* the request addresses the model drives: columns 0..MaxCol, the lowest and
\* the highest bank, and rows with and without address bit 10
MaxCol == 1
Banks == {0, Pow2(bank_bits) - 1}
PackAddr(col, row, bank) ==
    col + row * Pow2(col_bits) + bank * Pow2(col_bits + row_bits)
Addrs == { PackAddr(col, row, bank) :
             col \in 0..MaxCol, row \in {0, 1024}, bank \in Banks }

(***************************************************************************)
(* SDRAMController.do: the command driven this tick and the registers the  *)
(* call assigns; a register the call does not assign keeps its value.      *)
(***************************************************************************)
\* mutant: the countdown loaded with wait instead of wait - 1
DoWaitWhole(cmd, next, w, bank, addr) ==
    IF w > 0
    THEN [ cmd |-> cmd, addr |-> addr, bank |-> bank,
           state |-> WAIT, wait |-> Trunc(w, WaitBits), wait_state |-> next,
           n |-> w ]
    ELSE [ cmd |-> cmd, addr |-> addr, bank |-> bank,
           state |-> next, wait |-> wait, wait_state |-> wait_state,
           n |-> 0 ]

Do(cmd, next, w, bank, addr) ==
    IF w > 0
    THEN [ cmd |-> cmd, addr |-> addr, bank |-> bank,
           state |-> WAIT, wait |-> Trunc(w - 1, WaitBits), wait_state |-> next,
           n |-> w ]
    ELSE [ cmd |-> cmd, addr |-> addr, bank |-> bank,
           state |-> next, wait |-> wait, wait_state |-> wait_state,
           n |-> 0 ]

\* no do() call is active: the combinational signals take their reset values
\* (cmd resets to Cmd.NOP) and no register of do() is assigned
NoDo == [ cmd |-> CmdNOP, addr |-> 0, bank |-> 0,
          state |-> state, wait |-> wait, wait_state |-> wait_state, n |-> 0 ]

(***************************************************************************)
(* SDRAMController.elaborate: the rule of each state                       *)
(***************************************************************************)
\* mutants: PRECHARGE-ALL one evaluation early; Cmd.PRE in place of Cmd.PALL
InitWaitRuleEarly ==
    IF init_ctr <= 1
    THEN Do(CmdPALL, INIT_REF, max_delay, 0, 0)
    ELSE Do(CmdNOP, INIT_WAIT, max_delay, 0, 0)
InitWaitRulePre ==
    IF init_ctr = 0
    THEN Do(CmdPRE, INIT_REF, max_delay, 0, 0)
    ELSE Do(CmdNOP, INIT_WAIT, max_delay, 0, 0)

\* State.INIT_WAIT
InitWaitRule ==
    IF init_ctr = 0
    THEN Do(CmdPALL, INIT_REF, max_delay, 0, 0)
    ELSE Do(CmdNOP, INIT_WAIT, max_delay, 0, 0)

\* State.INIT_REF
InitRefRule ==
    Do(CmdREF, IF init_refs = 1 THEN INIT_MRS ELSE INIT_REF, c_rc, 0, 0)

\* State.INIT_MRS
InitMrsRule == Do(CmdMRS, IDLE, c_mrd, 0, Trunc(ModeEncode, addr_bits))

\* mutant (first definition below): outstanding refreshes are served before
\* a request.
\* State.IDLE.  The source names the conditions ref_counter.o_all and
\* ref_counter.i_req; PendingCounter has neither, and they are read as
\* ref_counter.o_full and the controller's own i_req.  The three branches are
\* If / If / Elif: the request test opens a second If, and where both an
\* earlier and a later statement assign a signal the later one takes effect.
IdleRuleRefreshFirst(req, addr) ==
    IF ref_counter.o_any = 1 \/ ref_counter.o_full = 1
    THEN Do(CmdREF, IDLE, c_rc, 0, 0)
    ELSE IF req = 1
    THEN Do(CmdACT, ACT, c_rcd, BankOf(addr), RowOf(addr))
    ELSE NoDo

IdleRule(req, addr) ==
    IF req = 1
    THEN Do(CmdACT, ACT, c_rcd, BankOf(addr), RowOf(addr))
    ELSE IF ref_counter.o_any = 1
    THEN Do(CmdREF, IDLE, c_rc, 0, 0)
    ELSE IF ref_counter.o_full = 1
    THEN Do(CmdREF, IDLE, c_rc, 0, 0)
    ELSE NoDo

\* mutant: the request is latched in every state
IdleLatchesAnyState(req) == req = 1

\* the request is latched in State.IDLE under the request test
IdleLatches(req) == state = IDLE /\ req = 1

\* State.ACT
ActRule ==
    IF r_write = 1
    THEN Do(CmdWRITA, IDLE, Max(c_ras - c_rcd, burst_length),
            BankOf(r_addr), ColOf(r_addr))
    ELSE Do(CmdREADA, IDLE, Max(c_ras - c_rcd, cas_latency + burst_length),
            BankOf(r_addr), ColOf(r_addr))

\* mutant: State.WAIT gives way to Idle when the refresh counter is full
WaitRuleAbort ==
    [ cmd |-> CmdNOP, addr |-> 0, bank |-> 0,
      state |-> IF ref_counter.o_full = 1 THEN IDLE
                ELSE IF wait = 0 THEN wait_state ELSE state,
      wait |-> Trunc(wait - 1, WaitBits), wait_state |-> wait_state,
      n |-> 0 ]

\* mutant: State.WAIT resumes wait_state on its first tick
WaitRuleImmediate ==
    [ cmd |-> CmdNOP, addr |-> 0, bank |-> 0,
      state |-> wait_state,
      wait |-> Trunc(wait - 1, WaitBits), wait_state |-> wait_state,
      n |-> 0 ]

\* State.WAIT
WaitRule ==
    [ cmd |-> CmdNOP, addr |-> 0, bank |-> 0,
      state |-> IF wait = 0 THEN wait_state ELSE state,
      wait |-> Trunc(wait - 1, WaitBits), wait_state |-> wait_state,
      n |-> 0 ]

\* m.Switch(self.state)
Rule(req, addr) ==
    CASE state = INIT_WAIT -> InitWaitRule
      [] state = INIT_REF  -> InitRefRule
      [] state = INIT_MRS  -> InitMrsRule
      [] state = IDLE      -> IdleRule(req, addr)
      [] state = ACT       -> ActRule
      [] state = WAIT      -> WaitRule

\* the combinational outputs of the current tick
cmd  == Rule(i_req, i_addr).cmd
addr == Rule(i_req, i_addr).addr
bank == Rule(i_req, i_addr).bank

\* the command pins: o_cs.eq(cmd[0]), o_ras.eq(cmd[1]), o_cas.eq(cmd[2]),
\* o_we.eq(cmd[3]); index 0 is the least significant bit of the signal
o_cs  == BitOf(cmd, 0)
o_ras == BitOf(cmd, 1)
o_cas == BitOf(cmd, 2)
o_we  == BitOf(cmd, 3)

\* o_a.eq(addr) on the 12-bit bus, then o_a[10].eq(addr[10] | cmd[4])
A10Override == BitOf(cmd, 4)
o_a ==
    LET a == Trunc(addr, 12) IN
    IF BitOf(a, 10) = 0 /\ A10Override = 1 THEN a + Pow2(10) ELSE a

\* o_ba.eq(bank) on the 2-bit bus
o_ba == Trunc(bank, 2)

\* r_grant is assigned 0 in the sync domain and 1 in the comb domain (while
\* rw_timer is nonzero, r_write is clear and rw_timer[:2] is 1).  A signal has
\* one driving domain; r_grant_domain is the one whose driver is kept.  The
\* sync driver alone makes r_grant a register that holds 0; the comb driver
\* alone makes it 1 on the ticks of its condition and 0 (its reset) otherwise.
r_grant ==
    IF r_grant_domain = "comb" /\ rw_timer # 0 /\ r_write = 0
                               /\ rw_timer % 4 = 1
    THEN 1 ELSE 0

\* o_grant.eq(r_grant), and o_grant.eq(1) in the write branch of State.ACT
o_grant == IF state = ACT /\ r_write = 1 THEN 1 ELSE r_grant

\* mutant: o_data_en follows rw_timer alone
o_data_enTimerOnly == IF rw_timer # 0 /\ r_write = 1 THEN 1 ELSE 0

\* o_data_en.eq(1) while rw_timer is nonzero and r_write is set, and in the
\* write branch of State.ACT; 0 (its reset) otherwise
o_data_en ==
    IF (rw_timer # 0 \/ state = ACT) /\ r_write = 1 THEN 1 ELSE 0

\* ref_counter.i_remove: the controller never assigns it, so it keeps its
\* reset value
RefRemove == 0

\* mutant: rw_timer armed in State.ACT and never decremented
RwTimerNextNoDecrement ==
    IF state = ACT
    THEN Trunc((IF r_write = 1 THEN burst_length ELSE cas_latency) - 1, RwTimerBits)
    ELSE rw_timer

\* rw_timer: decremented while nonzero; State.ACT's later assignment wins
RwTimerNext ==
    IF state = ACT
    THEN Trunc((IF r_write = 1 THEN burst_length ELSE cas_latency) - 1, RwTimerBits)
    ELSE IF rw_timer # 0 THEN rw_timer - 1 ELSE rw_timer

\* init_ctr.eq(init_ctr - 1) in State.INIT_WAIT
InitCtrNext ==
    IF state = INIT_WAIT THEN Trunc(init_ctr - 1, InitCtrBits) ELSE init_ctr

\* init_refs: no statement assigns it
InitRefsNext == init_refs

\* the registers after the clock edge that ends a tick with inputs
\* (req, write, addr)
RegsNext(req, write, a) ==
    LET d == Rule(req, a) IN
    [ state      |-> d.state,
      wait       |-> d.wait,
      wait_state |-> d.wait_state,
      rw_timer   |-> RwTimerNext,
      init_ctr   |-> InitCtrNext,
      init_refs  |-> InitRefsNext,
      r_addr     |-> IF IdleLatches(req) THEN a ELSE r_addr,
      r_write    |-> IF IdleLatches(req) THEN write ELSE r_write ]


(***************************************************************************)
(* Observers (saturating at MaxCount): the commands issued since the       *)
(* behaviour began, whether State.IDLE has been entered, and in_wait, the  *)
(* number of consecutive ticks up to the current one spent in State.WAIT.  *)
(* since_act is the number of ticks since the tick ACTIVATE was issued: it *)
(* counts while the controller is away from State.IDLE, shows the length   *)
(* of the round trip on the tick State.IDLE is entered, and is 0 after it. *)
(* since_ref is the number of ticks since the tick REFRESH was issued,     *)
(* counted up to c_rc and 0 after it.  Both saturate at MaxTicks.          *)
(***************************************************************************)
MaxCount == 8
MaxTicks == 12
Count(n, issued) == IF issued THEN Min(n + 1, MaxCount) ELSE n

SinceActNext ==
    IF cmd = CmdACT THEN 1
    ELSE IF since_act > 0 /\ state # IDLE THEN Min(since_act + 1, MaxTicks)
    ELSE 0

SinceRefNext ==
    IF cmd = CmdREF THEN 1
    ELSE IF since_ref > 0 /\ since_ref < c_rc THEN Min(since_ref + 1, MaxTicks)
    ELSE 0

\* the wait argument of the do() call of this tick, kept through State.WAIT
WaitNNext ==
    LET d == Rule(i_req, i_addr) IN IF d.n > 0 THEN d.n ELSE wait_n

\* the ticks with o_grant asserted from the tick of ACTIVATE on
NGrantNext ==
    IF cmd = CmdACT THEN o_grant ELSE Min(n_grant + o_grant, MaxCount)

ObserversNext ==
    /\ n_init_nop' = Count(n_init_nop, state = INIT_WAIT /\ cmd = CmdNOP)
    /\ n_pall'     = Count(n_pall, cmd = CmdPALL)
    /\ n_init_ref' = Count(n_init_ref, state = INIT_REF /\ cmd = CmdREF)
    /\ n_mrs'      = Count(n_mrs, cmd = CmdMRS)
    /\ seen_idle'  = (seen_idle \/ state' = IDLE)
    /\ in_wait'    = IF state' = WAIT THEN Min(in_wait + 1, MaxCount) ELSE 0
    /\ since_act'  = SinceActNext
    /\ since_ref'  = SinceRefNext
    /\ wait_n'     = WaitNNext
    /\ n_grant'    = NGrantNext

ObserversReset ==
    /\ n_init_nop = 0 /\ n_pall = 0 /\ n_init_ref = 0 /\ n_mrs = 0
    /\ seen_idle = FALSE
    /\ in_wait = 0
    /\ since_act = 0 /\ since_ref = 0
    /\ wait_n = 0 /\ n_grant = 0

(***************************************************************************)
(* The controller built with any SDRAMConfig and SDRAMMode within the      *)
(* bounds: the registers that decide when it leaves a state (state, wait,  *)
(* wait_state, init_ctr, init_refs, r_write, the refresh counter) and the  *)
(* inputs i_req and i_write.  Addresses and rw_timer take no part in the   *)
(* timing and are left out.  t_reset counts the ticks since reset up to    *)
(* c_init + 1; t_act counts the ticks since the tick of ACTIVATE, as since_act *)
(* does, up to the larger of c_ras and c_rcd.                              *)
(***************************************************************************)
MaxCInit == 5
MaxRc    == 3
MaxRas   == 6

\* the configuration and mode of the controller modelled above
ConfigUsed ==
    [ c_init |-> c_init, c_cas |-> c_cas, c_rcd |-> c_rcd, c_ras |-> c_ras,
      c_rc |-> c_rc, c_mrd |-> c_mrd,
      burst_length |-> burst_length, cas_latency |-> cas_latency ]

\* configurations run from reset: every c_init and every max_delay
InitConfigs ==
    [ c_init : 0..MaxCInit, c_cas : {1}, c_rcd : {1}, c_ras : {1},
      c_rc : 1..MaxRc, c_mrd : {1},
      burst_length : {1}, cas_latency : {2} ]

\* configurations run from State.IDLE: every delay of a transaction, the
\* burst lengths 1 and 2 and both encodable CAS latencies
ActConfigs ==
    [ c_init : {0}, c_cas : {1}, c_rcd : 1..2, c_ras : 1..MaxRas,
      c_rc : 1..MaxRc, c_mrd : {1},
      burst_length : {1, 2}, cas_latency : {2, 3} ]

\* self.max_delay = max(cfg.c_cas, cfg.c_rc, cfg.c_rcd, cfg.c_mrd)
MaxDelayOf(c) == Max(Max(c.c_cas, c.c_rc), Max(c.c_rcd, c.c_mrd))

\* mutant: init_cycles without the + 1
InitCyclesFloor(c) == c.c_init \div MaxDelayOf(c)

\* init_cycles = (cfg.c_init // self.max_delay) + 1
InitCyclesOf(c) == (c.c_init \div MaxDelayOf(c)) + 1

\* the wait arguments of the two do() calls of State.ACT
WriteWaitOf(c) == Max(c.c_ras - c.c_rcd, c.burst_length)
ReadWaitOf(c)  == Max(c.c_ras - c.c_rcd, c.cas_latency + c.burst_length)

\* the wait arguments of all do() calls
WaitArgs(c) ==
    { MaxDelayOf(c), c.c_rc, c.c_rcd, c.c_mrd, WriteWaitOf(c), ReadWaitOf(c) }

\* mutant: the countdown register as wide as the value needs
WaitLoadWide(c, w) == w - 1

\* wait.eq(wait - 1) into self.wait = Signal(range(self.max_delay))
WaitLoad(c, w) == Trunc(w - 1, RangeBits(MaxDelayOf(c)))

\* do()
CfgDo(c, r, command, next, w) ==
    IF w > 0
    THEN [ cmd |-> command, state |-> WAIT, wait |-> WaitLoad(c, w),
           wait_state |-> next ]
    ELSE [ cmd |-> command, state |-> next, wait |-> r.wait,
           wait_state |-> r.wait_state ]

\* m.Switch(self.state), as Rule above
CfgRule(c, r) ==
    CASE r.state = INIT_WAIT ->
             IF r.init_ctr = 0
             THEN CfgDo(c, r, CmdPALL, INIT_REF, MaxDelayOf(c))
             ELSE CfgDo(c, r, CmdNOP, INIT_WAIT, MaxDelayOf(c))
      [] r.state = INIT_REF ->
             CfgDo(c, r, CmdREF,
                   IF r.init_refs = 1 THEN INIT_MRS ELSE INIT_REF, c.c_rc)
      [] r.state = INIT_MRS -> CfgDo(c, r, CmdMRS, IDLE, c.c_mrd)
      [] r.state = IDLE ->
             IF r.i_req = 1 THEN CfgDo(c, r, CmdACT, ACT, c.c_rcd)
             ELSE IF r.ref.o_any = 1 \/ r.ref.o_full = 1
             THEN CfgDo(c, r, CmdREF, IDLE, c.c_rc)
             ELSE [ cmd |-> CmdNOP, state |-> r.state, wait |-> r.wait,
                    wait_state |-> r.wait_state ]
      [] r.state = ACT ->
             IF r.r_write = 1
             THEN CfgDo(c, r, CmdWRITA, IDLE, WriteWaitOf(c))
             ELSE CfgDo(c, r, CmdREADA, IDLE, ReadWaitOf(c))
      [] r.state = WAIT ->
             [ cmd |-> CmdNOP,
               state |-> IF r.wait = 0 THEN r.wait_state ELSE r.state,
               wait |-> Trunc(r.wait - 1, RangeBits(MaxDelayOf(c))),
               wait_state |-> r.wait_state ]

\* the registers after reset: init_ctr = Signal(range(init_cycles + 1),
\* reset=init_cycles)
RunReset(c, req, write) ==
    [ state |-> INIT_WAIT, wait |-> 0, wait_state |-> INIT_WAIT,
      init_ctr |-> InitCyclesOf(c), init_refs |-> 0, r_write |-> 0,
      ref |-> PendingCounterReset(RefParams),
      i_req |-> req, i_write |-> write, t_reset |-> 0, t_act |-> 0 ]

\* the registers in State.IDLE as State.INIT_MRS hands it over
RunIdle(c, req, write) ==
    [ state |-> IDLE, wait |-> Trunc(0 - 1, RangeBits(MaxDelayOf(c))),
      wait_state |-> IDLE,
      init_ctr |-> Trunc(0 - 1, RangeBits(InitCyclesOf(c) + 1)),
      init_refs |-> 1, r_write |-> 0,
      ref |-> PendingCounterReset(RefParams),
      i_req |-> req, i_write |-> write, t_reset |-> c.c_init + 1,
      t_act |-> 0 ]

\* one clock edge, the inputs of the next tick being (req, write)
RunEdge(c, r, req, write) ==
    LET d == CfgRule(c, r) IN
    [ state      |-> d.state,
      wait       |-> d.wait,
      wait_state |-> d.wait_state,
      init_ctr   |-> IF r.state = INIT_WAIT
                     THEN Trunc(r.init_ctr - 1, RangeBits(InitCyclesOf(c) + 1))
                     ELSE r.init_ctr,
      init_refs  |-> r.init_refs,
      r_write    |-> IF r.state = IDLE /\ r.i_req = 1 THEN r.i_write
                     ELSE r.r_write,
      ref        |-> PendingCounterTick(r.ref, RefRemove, RefParams),
      i_req      |-> req,
      i_write    |-> write,
      t_reset    |-> Min(r.t_reset + 1, c.c_init + 1),
      t_act      |-> IF d.cmd = CmdACT THEN 1
                     ELSE IF r.t_act > 0 /\ r.state # IDLE
                     THEN Min(r.t_act + 1, Max(c.c_ras, c.c_rcd))
                     ELSE 0 ]

(***************************************************************************)
(* build.py Scheduler.  Tasks are numbered 1, 2, ... in the order they are *)
(* added; threads[i] is the thread count of task i.  exited is the set of  *)
(* started tasks whose process has exited (poll() returns a Result).       *)
(* started and done list the tasks on_start and on_done were called for,   *)
(* and load[k] is the summed thread count of the active tasks at the       *)
(* moment the k-th task was started.                                       *)
(***************************************************************************)
MaxTasks   == 3
MaxThreads == 2

\* Scheduler.__init__
SchedulerReset(max_threads) ==
    [ max_threads |-> max_threads, queue |-> <<>>, active |-> <<>>,
      threads |-> <<>>, exited |-> {}, started |-> <<>>, done |-> <<>>,
      load |-> <<>> ]

\* the configuration run and the scheduler while they do not run
\* add_task: queue.append(task)
AddTask(s, th) ==
    [ s EXCEPT !.threads = Append(@, th),
               !.queue = Append(@, Len(s.threads) + 1) ]

\* sum(a.threads for a in self.active)
RECURSIVE SumThreads(_, _)
SumThreads(s, tasks) ==
    IF tasks = <<>> THEN 0
    ELSE s.threads[Head(tasks)] + SumThreads(s, Tail(tasks))

\* update, "Poll active task": a task whose poll() returns a Result is
\* reported by on_done and dropped, the others stay active in their order
PollActive(s) ==
    [ s EXCEPT !.active = SelectSeq(s.active, LAMBDA t : t \notin s.exited),
               !.done = @ \o SelectSeq(s.active, LAMBDA t : t \in s.exited) ]

\* mutant: the newest task of the queue is started
StartTaskNewest(s) ==
    LET t == s.queue[Len(s.queue)] IN
    [ s EXCEPT !.queue = SubSeq(@, 1, Len(@) - 1),
               !.started = Append(@, t),
               !.load = Append(@, SumThreads(s, s.active)),
               !.active = Append(@, t) ]

\* one round of the while loop: task = queue.pop(0); on_start(task);
\* task.start(); active.append(task)
StartTask(s) ==
    LET t == Head(s.queue) IN
    [ s EXCEPT !.queue = Tail(@),
               !.started = Append(@, t),
               !.load = Append(@, SumThreads(s, s.active)),
               !.active = Append(@, t) ]

\* update, "Schedule new tasks": while self.queue and sum(...) < max_threads
RECURSIVE Schedule(_)
Schedule(s) ==
    IF s.queue # <<>> /\ SumThreads(s, s.active) < s.max_threads
    THEN Schedule(StartTask(s))
    ELSE s

\* update
Update(s) == Schedule(PollActive(s))

\* finished
finished(s) == ~(s.queue # <<>> \/ s.active # <<>>)

ConfigIdle == cfg = ConfigUsed /\ run = RunReset(ConfigUsed, 0, 0)
SchedIdle  == sched = SchedulerReset(1)
ExtrasIdle == ConfigIdle /\ SchedIdle


\* the cover harness's registers after reset, and while it does not run;
\* the mode the modelled controller was elaborated with
HarnessesIdle ==
    /\ was_full = 0 /\ was_emptied = 0 /\ ticks = 0 /\ since_add = 0
    /\ mode = ConfigMode
    /\ build = [ stage |-> "elaborated", cycles |-> 0 ]
    /\ tmds = TmdsReset
    /\ pipe = PipeReset
    /\ ExtrasIdle

\* the same, with the comb driver of r_grant kept
CoverIdle == HarnessesIdle /\ r_grant_domain = "comb"

(***************************************************************************)
(* The controller after reset, and one clock edge of it                    *)
(***************************************************************************)
InputsAny ==
    /\ i_req \in Bit
    /\ i_write \in Bit
    /\ i_addr \in Addrs

ControllerReset ==
    /\ state = INIT_WAIT
    /\ wait = 0
    /\ wait_state = INIT_WAIT
    /\ rw_timer = 0
    /\ init_ctr = init_cycles
    /\ init_refs = 0
    /\ r_addr = 0
    /\ r_write = 0
    /\ ref_counter = PendingCounterReset(RefParams)

ControllerEdge ==
    LET n == RegsNext(i_req, i_write, i_addr) IN
    /\ state' = n.state
    /\ wait' = n.wait
    /\ wait_state' = n.wait_state
    /\ rw_timer' = n.rw_timer
    /\ init_ctr' = n.init_ctr
    /\ init_refs' = n.init_refs
    /\ r_addr' = n.r_addr
    /\ r_write' = n.r_write
    /\ ref_counter' = PendingCounterTick(ref_counter, RefRemove, RefParams)

Tick ==
    /\ ControllerEdge
    /\ ObserversNext
    /\ i_req' \in Bit
    /\ i_write' \in Bit
    /\ i_addr' \in Addrs
    /\ UNCHANGED <<pcVars, covVars, modeVars, tmdsVars, cfgVars, sched>>

(***************************************************************************)
(* The counter harness after reset, and one clock edge of it               *)
(***************************************************************************)
CounterReset ==
    /\ pc = PendingCounterReset(BmcParams)
    /\ i_remove \in {r \in Bit : BmcAssumptions(pc, r)}

CounterTick ==
    /\ pc' = PendingCounterTick(pc, i_remove, BmcParams)
    /\ i_remove' \in {r \in Bit : BmcAssumptions(pc', r)}
    /\ UNCHANGED <<ctlVars, covVars, modeVars, tmdsVars, cfgVars, sched>>

(***************************************************************************)
(* Specifications                                                          *)
(***************************************************************************)
\* the controller from reset, any inputs
Init ==
    /\ ControllerReset
    /\ ObserversReset
    /\ InputsAny
    /\ pc = PendingCounterReset(BmcParams)
    /\ i_remove = 0
    /\ CoverIdle

Next == Tick

Spec == Init /\ [][Next]_vars

\* the clock never stops
FairSpec == Spec /\ WF_vars(Tick)

\* the controller from State.IDLE, the state the rule of State.INIT_MRS hands
\* over to once its c_mrd wait has run out: wait and init_ctr have wrapped
\* below zero, init_refs has selected INIT_MRS, no transaction is latched
ControllerIdle ==
    /\ state = IDLE
    /\ wait = Trunc(0 - 1, WaitBits)
    /\ wait_state = IDLE
    /\ rw_timer = 0
    /\ init_ctr = Trunc(0 - 1, InitCtrBits)
    /\ init_refs = 1
    /\ r_addr = 0
    /\ r_write = 0
    /\ ref_counter = PendingCounterReset(RefParams)

IdleStart ==
    /\ ControllerIdle
    /\ n_init_nop = 0 /\ n_pall = 0 /\ n_init_ref = 0 /\ n_mrs = 0
    /\ seen_idle = TRUE
    /\ in_wait = 0
    /\ since_act = 0 /\ since_ref = 0
    /\ wait_n = 0 /\ n_grant = 0
    /\ InputsAny
    /\ pc = PendingCounterReset(BmcParams)
    /\ i_remove = 0
    /\ HarnessesIdle

IdleInit == IdleStart /\ r_grant_domain = "comb"

SpecIdle == IdleInit /\ [][Next]_vars

\* the controller from State.IDLE, with either driver of r_grant kept
GrantInit == IdleStart /\ r_grant_domain \in {"comb", "sync"}

SpecGrant == GrantInit /\ [][Next]_vars

\* the controller from State.INIT_MRS, the state the rule of State.INIT_REF
\* hands over to when init_refs selects it, once its c_rc wait has run out
ControllerMrs ==
    /\ state = INIT_MRS
    /\ wait = Trunc(0 - 1, WaitBits)
    /\ wait_state = INIT_MRS
    /\ rw_timer = 0
    /\ init_ctr = Trunc(0 - 1, InitCtrBits)
    /\ init_refs = 1
    /\ r_addr = 0
    /\ r_write = 0
    /\ ref_counter = PendingCounterReset(RefParams)

MrsInit ==
    /\ ControllerMrs
    /\ ObserversReset
    /\ InputsAny
    /\ pc = PendingCounterReset(BmcParams)
    /\ i_remove = 0
    /\ CoverIdle

SpecMrs == MrsInit /\ [][Next]_vars

\* the controller from reset or from State.INIT_MRS: every state's rule runs
BootInit == Init \/ MrsInit

SpecBoot == BootInit /\ [][Next]_vars

\* bmc_pending_counter
CounterInit ==
    /\ CounterReset
    /\ ControllerReset
    /\ ObserversReset
    /\ i_req = 0 /\ i_write = 0 /\ i_addr = 0
    /\ CoverIdle

CounterNext == CounterTick

SpecCounter == CounterInit /\ [][CounterNext]_vars

(***************************************************************************)
(* cover_pending_counter: PendingCounter(3, 5) under the same two Assume   *)
(* statements, with the registers was_full and was_emptied; the task runs  *)
(* to depth CoverDepth.  ticks counts the clock edges since reset and      *)
(* saturates one past that depth.                                          *)
(***************************************************************************)
CoverDepth == 40

\* mutant: was_emptied set without was_full
WasEmptiedNextAlways(c, wf, we) == IF c.o_any = 0 THEN 1 ELSE we

\* with m.If(pc.o_full): was_full.eq(1)
WasFullNext(c, wf) == IF c.o_full = 1 THEN 1 ELSE wf
\* with m.If(~pc.o_any & was_full): was_emptied.eq(1)
WasEmptiedNext(c, wf, we) == IF c.o_any = 0 /\ wf = 1 THEN 1 ELSE we

CoverRegsNext ==
    /\ was_full' = WasFullNext(pc, was_full)
    /\ was_emptied' = WasEmptiedNext(pc, was_full, was_emptied)
    /\ ticks' = Min(ticks + 1, CoverDepth + 1)
    /\ since_add' = IF pc.add = 1 THEN 1
                    ELSE IF since_add > 0 THEN Min(since_add + 1, MaxTicks)
                    ELSE 0

CoverTick ==
    /\ pc' = PendingCounterTick(pc, i_remove, BmcParams)
    /\ i_remove' \in {r \in Bit : BmcAssumptions(pc', r)}
    /\ CoverRegsNext
    /\ UNCHANGED <<ctlVars, modeVars, tmdsVars, cfgVars, sched>>

CoverInit ==
    /\ CounterReset
    /\ ControllerReset
    /\ ObserversReset
    /\ i_req = 0 /\ i_write = 0 /\ i_addr = 0
    /\ CoverIdle

CoverNext == CoverTick

SpecCover == CoverInit /\ [][CoverNext]_vars

\* PendingCounter(3, 5) with no removal ever requested: i_remove stays 0,
\* which the second Assume statement excludes once o_full is set.  was_full
\* records, as in the cover harness, that o_full has been seen.
NoRemoveTick ==
    /\ pc' = PendingCounterTick(pc, 0, BmcParams)
    /\ i_remove' = 0
    /\ CoverRegsNext
    /\ UNCHANGED <<ctlVars, modeVars, tmdsVars, cfgVars, sched>>

NoRemoveInit ==
    /\ pc = PendingCounterReset(BmcParams)
    /\ i_remove = 0
    /\ ControllerReset
    /\ ObserversReset
    /\ i_req = 0 /\ i_write = 0 /\ i_addr = 0
    /\ CoverIdle

NoRemoveNext == NoRemoveTick

SpecNoRemove == NoRemoveInit /\ [][NoRemoveNext]_vars


(***************************************************************************)
(* SDRAMMode: a controller is constructed with any mode within the bounds  *)
(* (burst_length 0..MaxBurst, cas_latency 0..MaxCas, 0 being False, the    *)
(* dataclass default); elaborate() then calls mode.encode() while it       *)
(* builds the case of State.INIT_MRS, and only an elaborated controller    *)
(* runs cycles (counted up to MaxCycles).                                  *)
(***************************************************************************)
MaxBurst  == 9
MaxCas    == 4
MaxCycles == 2

Modes ==
    [ burst_length : 0..MaxBurst, burst_interleaved : {0, 1},
      cas_latency : 0..MaxCas ]

\* SDRAMMode(): burst_length = 1, burst_interleaved = False, cas_latency = False
DefaultMode ==
    [ burst_length |-> 1, burst_interleaved |-> 0, cas_latency |-> 0 ]

Elaborate ==
    /\ build.stage = "constructed"
    /\ build' = [ build EXCEPT !.stage =
                      IF Encodable(mode) THEN "elaborated" ELSE "KeyError" ]
    /\ UNCHANGED <<mode, r_grant_domain, pcVars, ctlVars, covVars, tmdsVars, cfgVars, sched>>

ModeCycle ==
    /\ build.stage = "elaborated"
    /\ build' = [ build EXCEPT !.cycles = Min(build.cycles + 1, MaxCycles) ]
    /\ UNCHANGED <<mode, r_grant_domain, pcVars, ctlVars, covVars, tmdsVars, cfgVars, sched>>

ModeInit ==
    /\ mode \in Modes
    /\ build = [ stage |-> "constructed", cycles |-> 0 ]
    /\ r_grant_domain = "comb"
    /\ pc = PendingCounterReset(BmcParams)
    /\ i_remove = 0
    /\ ControllerReset
    /\ ObserversReset
    /\ i_req = 0 /\ i_write = 0 /\ i_addr = 0
    /\ was_full = 0 /\ was_emptied = 0 /\ ticks = 0 /\ since_add = 0
    /\ tmds = TmdsReset
    /\ pipe = PipeReset
    /\ ExtrasIdle

ModeNext == Elaborate \/ ModeCycle

SpecMode == ModeInit /\ [][ModeNext]_vars

(***************************************************************************)
(* The TMDS harnesses                                                      *)
(***************************************************************************)
RtlIdle ==
    /\ pc = PendingCounterReset(BmcParams)
    /\ i_remove = 0
    /\ ControllerReset
    /\ ObserversReset
    /\ i_req = 0 /\ i_write = 0 /\ i_addr = 0
    /\ was_full = 0 /\ was_emptied = 0 /\ ticks = 0 /\ since_add = 0
    /\ mode = ConfigMode
    /\ build = [ stage |-> "elaborated", cycles |-> 0 ]
    /\ r_grant_domain = "comb"

OthersIdle == RtlIdle /\ ExtrasIdle

FormalTick ==
    /\ \E in \in TmdsInputs : tmds' = FormalEdge(tmds, in)
    /\ UNCHANGED <<pipe, pcVars, ctlVars, covVars, modeVars, cfgVars, sched>>

FormalInit == tmds = TmdsReset /\ pipe = PipeReset /\ OthersIdle

FormalNext == FormalTick

SpecFormal == FormalInit /\ [][FormalNext]_vars

\* the data words the pipe harness is driven with: 0..MaxPipeData, with
\* every value of the three one-bit inputs
MaxPipeData == 63
PipeInputs ==
    [ data : 0..MaxPipeData, en_data : Bit, hsync : Bit, vsync : Bit ]

PipeTick ==
    /\ \E in \in PipeInputs : pipe' = PipeEdge(pipe, in)
    /\ UNCHANGED <<tmds, pcVars, ctlVars, covVars, modeVars, cfgVars, sched>>

PipeNext == PipeTick

SpecPipe == FormalInit /\ [][PipeNext]_vars

(***************************************************************************)
(* The controller for every configuration within the bounds, from reset    *)
(* and from State.IDLE                                                     *)
(***************************************************************************)
ConfigTick ==
    /\ \E req \in Bit, write \in Bit : run' = RunEdge(cfg, run, req, write)
    /\ UNCHANGED <<cfg, sched, pcVars, ctlVars, covVars, modeVars, tmdsVars>>

ConfigInit ==
    /\ \/ /\ cfg \in InitConfigs
          /\ \E req \in Bit, write \in Bit : run = RunReset(cfg, req, write)
       \/ /\ cfg \in ActConfigs
          /\ \E req \in Bit, write \in Bit : run = RunIdle(cfg, req, write)
    /\ SchedIdle
    /\ RtlIdle
    /\ tmds = TmdsReset /\ pipe = PipeReset

ConfigNext == ConfigTick

SpecConfig == ConfigInit /\ [][ConfigNext]_vars

(***************************************************************************)
(* The Scheduler under add_task and update calls in any order, up to       *)
(* MaxTasks tasks of 1..MaxThreads threads, max_threads 0..MaxThreads; the *)
(* process of a started task exits at any moment.  In the fair             *)
(* specification update is called again and again, as the main loop of     *)
(* __main__.py does while finished() is false, and every started task      *)
(* exits.                                                                  *)
(***************************************************************************)
SchedAdd ==
    /\ Len(sched.threads) < MaxTasks
    /\ \E th \in 1..MaxThreads : sched' = AddTask(sched, th)
    /\ UNCHANGED <<cfgVars, pcVars, ctlVars, covVars, modeVars, tmdsVars>>

SchedUpdate ==
    /\ sched' = Update(sched)
    /\ UNCHANGED <<cfgVars, pcVars, ctlVars, covVars, modeVars, tmdsVars>>

TaskExit(t) ==
    /\ \E i \in 1..Len(sched.active) : sched.active[i] = t
    /\ t \notin sched.exited
    /\ sched' = [ sched EXCEPT !.exited = @ \cup {t} ]
    /\ UNCHANGED <<cfgVars, pcVars, ctlVars, covVars, modeVars, tmdsVars>>

SchedInit ==
    /\ \E m \in 0..MaxThreads : sched = SchedulerReset(m)
    /\ ConfigIdle
    /\ RtlIdle
    /\ tmds = TmdsReset /\ pipe = PipeReset

SchedNext ==
    \/ SchedAdd
    \/ SchedUpdate
    \/ \E t \in 1..MaxTasks : TaskExit(t)

SpecSched == SchedInit /\ [][SchedNext]_vars

FairSpecSched ==
    /\ SpecSched
    /\ WF_vars(SchedUpdate)
    /\ \A t \in 1..MaxTasks : WF_vars(TaskExit(t))

(***************************************************************************)
(* Properties of the counter harness (SpecCounter)                         *)
(***************************************************************************)

\* C1: under the two input assumptions, the registered decrement sub is 0
\* whenever pending is 0, so the backlog never wraps below zero.
C1_NoUnderflow == AssertNoUnderflow(pc)

\* the backlog has been drawn down to 0 by removals
C1_Witness == pc.pending = 0 /\ pc.sub = 0 /\ pc.o_any = 0

\* C2: under the two input assumptions, the registered increment add is 0
\* whenever pending is at the ceiling max_pending + slack_lo + slack_hi, and
\* pending never passes the ceiling.
C2_NoOverflow ==
    /\ AssertNoOverflow(pc, BmcParams)
    /\ pc.pending <= BmcParams.max_pending_lohi

\* an increment is scheduled while the counter reports full and the removal
\* it forces is requested
C2_Witness == pc.add = 1 /\ pc.o_full = 1 /\ i_remove = 1

\* C3 as stated: pending stays within [slack_lo, max_pending+slack_lo+slack_hi]
C3_RangeFromBias ==
    /\ pc.pending >= BmcParams.bias_lo
    /\ pc.pending <= BmcParams.max_pending_lohi

\* C3, amended: pending stays within [0, max_pending+slack_lo+slack_hi]; it
\* dips below the reset value slack_lo, down to 0, and never wraps.
C3_RangeFromZero ==
    /\ pc.pending >= 0
    /\ pc.pending <= BmcParams.max_pending_lohi

\* pending is below the low bias and a further decrement is registered
C3_Witness == pc.pending < BmcParams.bias_lo /\ pc.sub = 1

(***************************************************************************)
(* Properties of the controller                                            *)
(***************************************************************************)

C5_CounterPreconditions ==
    /\ AssertNoUnderflow(ref_counter)
    /\ AssertNoOverflow(ref_counter, RefParams)

C7_InitTerminates == <>(state = IDLE)

\* C8: initialization issues exactly 2 REFRESH commands from InitRefresh and
\* then moves on to InitModeSet; it never issues a third.
C8_TwoInitRefreshes == n_init_ref <= 2

\* C9 as stated: with c_init = 20 and max_delay = 5, InitWait issues NOP
\* exactly 4 times and PRECHARGE-ALL on the next evaluation.
C9_FourNops ==
    /\ n_init_nop <= 4
    /\ (state = INIT_WAIT /\ cmd = CmdPALL) => n_init_nop = 4

\* C9, amended: with c_init = 20 and max_delay = 5, InitWait issues NOP
\* exactly 5 times (init_ctr = 5, 4, 3, 2, 1), each followed by exactly 5
\* ticks in Wait, and PRECHARGE-ALL on the sixth evaluation (init_ctr = 0).
C9_FiveNops ==
    /\ c_init = 20 /\ max_delay = 5
    /\ n_init_nop <= 5
    /\ (state = INIT_WAIT /\ cmd = CmdPALL) => n_init_nop = 5
    /\ (state = INIT_WAIT /\ cmd = CmdNOP) => n_init_nop = 5 - init_ctr
    /\ (state = WAIT /\ wait_state = INIT_WAIT) => in_wait + wait = 5

\* PRECHARGE-ALL is issued from InitWait after the NOPs
C9_Witness == state = INIT_WAIT /\ cmd = CmdPALL /\ n_init_nop > 0

\* C10: before Idle is first reached every command is NOP, PRECHARGE-ALL,
\* REFRESH or MODE-REGISTER-SET; PRECHARGE-ALL is issued once, before every
\* REFRESH; every REFRESH comes before MODE-REGISTER-SET; and the request
\* inputs change neither the command nor the next registers.
C10_InitCommands ==
    ~seen_idle =>
        /\ cmd \in {CmdNOP, CmdPALL, CmdREF, CmdMRS}
        /\ n_pall <= 1
        /\ cmd = CmdPALL => (n_pall = 0 /\ n_init_ref = 0 /\ n_mrs = 0)
        /\ cmd = CmdREF => (n_pall = 1 /\ n_mrs = 0)
        /\ cmd = CmdMRS => (n_pall = 1 /\ n_init_ref >= 1 /\ n_mrs = 0)
        /\ \A req \in Bit, write \in Bit, a \in Addrs :
              /\ Rule(req, a) = Rule(i_req, i_addr)
              /\ RegsNext(req, write, a) = RegsNext(i_req, i_write, i_addr)

\* C10, with the one PRECHARGE-ALL eventually issued: the commands before
\* Idle are as above at every tick, and PRECHARGE-ALL is issued exactly once.
C10_InitSequence == []C10_InitCommands /\ <>(n_pall = 1)

\* a REFRESH is issued after the one PRECHARGE-ALL, with a request present
C10_Witness ==
    ~seen_idle /\ state = INIT_REF /\ cmd = CmdREF /\ n_pall = 1 /\ i_req = 1

\* the wait State.ACT asks for after the column command of a write (w = 1)
\* or a read (w = 0), and c_rcd plus that wait
ColumnWait(w) ==
    IF w = 1 THEN Max(c_ras - c_rcd, burst_length)
    ELSE Max(c_ras - c_rcd, cas_latency + burst_length)
RoundTrip(w) == c_rcd + ColumnWait(w)

C12_Bit10Override ==
    BitOf(o_a, 10) =
        (IF cmd \in {CmdREADA, CmdWRITA, CmdPALL} \/ BitOf(addr, 10) = 1
         THEN 1 ELSE 0)

\* C13: the pins o_cs, o_ras, o_cas, o_we and the bit-10 override are, in
\* that order, the five bits of the command's signature, most significant
\* bit first (CS RAS CAS WE A10).
C13_PinsInTableOrder ==
    /\ o_cs  = BitOf(cmd, 4)
    /\ o_ras = BitOf(cmd, 3)
    /\ o_cas = BitOf(cmd, 2)
    /\ o_we  = BitOf(cmd, 1)
    /\ A10Override = BitOf(cmd, 0)

C15_RefreshSpacing == since_ref \in 1..c_rc => cmd = CmdNOP

\* the last of the c_rc ticks after a REFRESH issued from Idle, a request
\* being presented
C15_Witness ==
    since_ref = c_rc /\ state = WAIT /\ wait_state = IDLE /\ i_req = 1

\* C16: a request presented in Idle while the refresh counter is not full is
\* admitted: ACTIVATE is issued for it on that very tick, whether or not
\* refreshes are pending, the c_rcd ticks after it are spent in Wait bound for
\* Active, and on the tick after those the controller is in Active.  Tick
\* has no guard, so no request waits in Idle.
C16_RequestAdmitted ==
    /\ (state = IDLE /\ i_req = 1 /\ ref_counter.o_full = 0) =>
           /\ cmd = CmdACT
           /\ bank = BankOf(i_addr) /\ addr = RowOf(i_addr)
    /\ since_act \in 1..c_rcd => (state = WAIT /\ wait_state = ACT)
    /\ since_act = c_rcd + 1 => state = ACT

\* a request is admitted from Idle while refreshes are pending
C16_Witness ==
    /\ state = IDLE /\ i_req = 1
    /\ ref_counter.o_full = 0 /\ ref_counter.o_any = 1
    /\ cmd = CmdACT

\* C17: once ACTIVATE has been issued the transaction runs to completion:
\* NOP on the c_rcd ticks after it, then from Active the one column command,
\* WRITE-WITH-AUTO-PRECHARGE if the latched write flag is 1 and
\* READ-WITH-AUTO-PRECHARGE if it is 0, on the latched bank and column, then
\* NOP until Idle is entered; and away from Idle the command and the next
\* registers are those of the tick with no request, whatever i_req, i_write
\* and i_addr are (every input occurs with every register valuation) and
\* whatever the refresh counter reports.
C17_NoAbort ==
    since_act > 0 =>
        /\ since_act <= RoundTrip(r_write) + 2
        /\ since_act \in 1..c_rcd => (state = WAIT /\ cmd = CmdNOP)
        /\ since_act = c_rcd + 1 =>
               /\ state = ACT
               /\ cmd = (IF r_write = 1 THEN CmdWRITA ELSE CmdREADA)
               /\ bank = BankOf(r_addr) /\ addr = ColOf(r_addr)
        /\ since_act \in (c_rcd + 2)..(RoundTrip(r_write) + 1) =>
               (state = WAIT /\ wait_state = IDLE /\ cmd = CmdNOP)
        /\ since_act = RoundTrip(r_write) + 2 => state = IDLE
        /\ state # IDLE =>
               /\ Rule(i_req, i_addr) = Rule(0, 0)
               /\ RegsNext(i_req, i_write, i_addr) = RegsNext(0, 0, 0)

\* a write has run to completion with the refresh counter full
C17_Witness ==
    /\ state = IDLE /\ since_act = RoundTrip(r_write) + 2
    /\ r_write = 1 /\ ref_counter.o_full = 1

\* C18: on every clock edge, r_addr or r_write changes only if the tick it
\* ends was spent in Idle with ACTIVATE issued for a request; on every other
\* tick, in every state and for all inputs, both keep their values.
C18_LatchOnlyOnAdmit ==
    [][ (r_addr' # r_addr \/ r_write' # r_write) =>
            /\ state = IDLE /\ i_req = 1 /\ cmd = CmdACT
            /\ r_addr' = i_addr /\ r_write' = i_write ]_vars

\* a request has just been latched and another one is presented in Wait
C18_Witness ==
    /\ since_act = 1 /\ state = WAIT
    /\ r_write = 1 /\ r_addr = PackAddr(MaxCol, 1024, 0)
    /\ i_req = 1 /\ i_write = 0 /\ i_addr # r_addr

(***************************************************************************)
(* Properties of the counter without removals and of the cover harness     *)
(***************************************************************************)

\* C19: with no removal ever requested, once o_full has been seen true it
\* is true at every later tick.
C19_FullStaysFull == was_full = 1 => pc.o_full = 1

\* C20: under the two assumptions the cover statement is reachable within
\* the task's depth, and only by a trace on which o_full was seen true and
\* o_any was seen false on a later tick: was_emptied is never set before
\* was_full, and not before the counter had the time to fill and to drain.
C20_FullThenEmptied ==
    /\ was_emptied = 1 => was_full = 1
    /\ was_full = 1 =>
           ticks > (BmcParams.max_pending_lo - BmcParams.bias_lo) * (BmcPeriod + 1)
    /\ was_emptied = 1 =>
           ticks > (BmcParams.max_pending_lo - BmcParams.bias_lo) * (BmcPeriod + 2)

\* the cover statement holds within the depth of the task
C20_Witness == was_emptied = 1 /\ ticks <= CoverDepth

(***************************************************************************)
(* Properties of SDRAMMode (SpecMode)                                      *)
(***************************************************************************)

\* C21: encode returns a value only for burst_length in {1, 2, 4, 8, 0} and
\* cas_latency in {2, 3}; with any other mode, the default one included,
\* elaboration ends in the error and no cycle of the controller is run.
C21_EncodeOnlySupported ==
    LET supported == /\ mode.burst_length \in {1, 2, 4, 8, 0}
                     /\ mode.cas_latency \in {2, 3}
    IN  /\ build.stage = "elaborated" => supported
        /\ build.stage = "KeyError" => (~supported /\ build.cycles = 0)
        /\ build.cycles > 0 => supported
        /\ supported => Encode(mode) \in 0..(Pow2(7) - 1)

\* the default mode has failed in elaborate()
C21_Witness == mode = DefaultMode /\ build.stage = "KeyError"

(***************************************************************************)
(* Properties of the TMDS encoder and decoder (SpecFormal, SpecPipe)       *)
(***************************************************************************)

\* C22: for every data value, hsync, vsync and data enable, and every
\* reachable dc_bias, the decoder applied to the encoder's character
\* reports o_en_data = i_en_data, with data enabled o_data = i_data, and
\* with data disabled o_hsync = i_hsync and o_vsync = i_vsync.
C22_RoundTrip ==
    \A in \in TmdsInputs :
        LET e == Encoder(in.data, in.en_data, in.hsync, in.vsync, tmds.dc_bias)
            r == Decoded[e.o_char]
        IN  /\ r.o_en_data = in.en_data
            /\ in.en_data = 1 => r.o_data = in.data
            /\ in.en_data = 0 =>
                   (r.o_hsync = in.hsync /\ r.o_vsync = in.vsync)

\* a data character has been emitted and decodes as data, the bias being
\* off zero
C22_Witness ==
    /\ tmds.i_en_data = 1 /\ tmds.dc_bias # 0
    /\ Decoded[tmds.enc_char].o_en_data = 1

\* C23: the running sum of popcount(o_char) - 5 over the data characters
\* stays within -5..5 and never leaves that range for one tick (the 5-bit
\* register that holds it does not wrap), dc_bias is that sum modulo 16, and
\* a tick with data disabled leaves the sum and dc_bias as they are.
C23_BiasBounded ==
    /\ tmds.real_dc_bias \in (0 - 5)..5
    /\ Trunc(tmds.real_dc_bias, 4) = tmds.dc_bias
    /\ \A in \in TmdsInputs :
           LET e == Encoder(in.data, in.en_data, in.hsync, in.vsync,
                            tmds.dc_bias)
               n == FormalEdge(tmds, in)
           IN  IF in.en_data = 1
               THEN tmds.real_dc_bias + popcount(e.o_char, 10) - 5
                        \in (0 - 5)..5
               ELSE /\ n.real_dc_bias = tmds.real_dc_bias
                    /\ n.dc_bias = tmds.dc_bias

\* the sum stands at 4, the highest value it takes, after a data character
C23_Witness == tmds.real_dc_bias = 4 /\ tmds.i_en_data = 1

C29_AccrualEveryPeriod ==
    /\ pc.add = 1 => pc.timer = 0
    /\ (pc.add = 1 /\ since_add > 0) => since_add = BmcPeriod

C31_FlagsSameTick ==
    /\ pc.o_full = 1 <=> pc.pending >= BmcParams.max_pending_lo
    /\ pc.o_any = 1 <=> pc.pending > BmcParams.bias_lo

\* C31, amended: o_full and o_any are registers; after every clock edge
\* o_full is true exactly when pending before the edge was at least
\* max_pending + low bias, and o_any exactly when pending before the edge
\* was above the low bias: the flags tell of pending one tick late.
C31_FlagsOneTickLate ==
    [][ /\ pc'.o_full = 1 <=> pc.pending >= BmcParams.max_pending_lo
        /\ pc'.o_any = 1 <=> pc.pending > BmcParams.bias_lo ]_vars

\* pending has just reached the full mark and o_full does not show it yet
C31_Witness ==
    /\ pc.pending = BmcParams.max_pending_lo /\ pc.o_full = 0 /\ pc.o_any = 1

\* C33: one command of the table is driven on every tick; on every tick
\* spent in State.WAIT it is NOP with addr and bank zero, and the edge that
\* ends the tick decrements the countdown, keeps the resume state and leaves
\* State.WAIT only at countdown zero, whatever i_req, i_write, i_addr and
\* the refresh counter's outputs are (every input and every counter output
\* occurs with the registers of State.WAIT).
C33_WaitDrivesNop ==
    /\ cmd \in {CmdNOP, CmdPALL, CmdREF, CmdMRS, CmdACT, CmdREADA, CmdWRITA}
    /\ state = WAIT =>
           LET n == RegsNext(i_req, i_write, i_addr)
           IN  /\ cmd = CmdNOP /\ addr = 0 /\ bank = 0
               /\ n.wait = Trunc(wait - 1, WaitBits)
               /\ n.wait_state = wait_state
               /\ n.state = (IF wait = 0 THEN wait_state ELSE WAIT)
               /\ n.r_addr = r_addr /\ n.r_write = r_write

\* a write request is presented in State.WAIT while the counter is full
\* and reports pending refreshes
C33_Witness ==
    /\ state = WAIT /\ wait > 0
    /\ i_req = 1 /\ i_write = 1
    /\ ref_counter.o_full = 1 /\ ref_counter.o_any = 1

\* C34: WRITE and WRITE-WITH-AUTO-PRECHARGE have 5-bit values different from
\* READ and READ-WITH-AUTO-PRECHARGE, differing in the write-enable bit, so
\* the command pins of a write's column command differ from a read's.
C34_WriteDiffersFromRead ==
    /\ CmdWRIT # CmdREAD /\ CmdWRITA # CmdREADA
    /\ (state = ACT /\ r_write = 1) => cmd # CmdREADA
    /\ (state = ACT /\ r_write = 1) =>
           <<o_cs, o_ras, o_cas, o_we>> #
               <<BitOf(CmdREADA, 0), BitOf(CmdREADA, 1),
                 BitOf(CmdREADA, 2), BitOf(CmdREADA, 3)>>

CeilDiv(n, d) == (n + d - 1) \div d

\* C32 as stated: the reset value of init_ctr is ceil(c_init / max_delay) + 1
C32_InitCyclesCeil ==
    run.state = INIT_WAIT /\ run.t_reset = 0 /\ run.init_refs = 0 =>
        run.init_ctr = CeilDiv(cfg.c_init, MaxDelayOf(cfg)) + 1

\* C32, amended: the reset value of init_ctr is floor(c_init / max_delay)
\* + 1; that is ceil(c_init / max_delay) + 1 when c_init is a multiple of
\* max_delay and ceil(c_init / max_delay) when it is not.
C32_InitCyclesFloor ==
    run.state = INIT_WAIT /\ run.t_reset = 0 /\ run.init_refs = 0 =>
        /\ run.init_ctr * MaxDelayOf(cfg) > cfg.c_init
        /\ (run.init_ctr - 1) * MaxDelayOf(cfg) <= cfg.c_init
        /\ run.init_ctr =
               (IF cfg.c_init % MaxDelayOf(cfg) = 0
                THEN CeilDiv(cfg.c_init, MaxDelayOf(cfg)) + 1
                ELSE CeilDiv(cfg.c_init, MaxDelayOf(cfg)))

\* the controller is at reset with c_init no multiple of max_delay
C32_Witness ==
    /\ run.state = INIT_WAIT /\ run.t_reset = 0 /\ run.init_refs = 0
    /\ cfg.c_init = MaxCInit /\ MaxDelayOf(cfg) = 2
    /\ run.init_ctr = MaxCInit \div 2 + 1

\* C35: for every configuration and mode, each countdown do() loads on
\* entry to State.WAIT, the wait argument less one, fits the wait register
\* without truncation, and the controller spends the whole countdown in
\* State.WAIT: the register never holds less than the value loaded.
C35_CountdownFits ==
    /\ \A w \in WaitArgs(cfg) : WaitLoad(cfg, w) = w - 1
    /\ (run.state = ACT /\ run.r_write = 0) =>
           RunEdge(cfg, run, 0, 0).wait = ReadWaitOf(cfg) - 1

\* C37: for every c_init and max_delay, NOP is the command of every tick
\* earlier than c_init ticks after reset: PRECHARGE-ALL, the first command
\* that is not NOP, comes c_init ticks after reset or later.
C37_PallAfterCInit ==
    /\ run.t_reset < cfg.c_init => CfgRule(cfg, run).cmd = CmdNOP
    /\ CfgRule(cfg, run).cmd = CmdPALL =>
           (run.state = INIT_WAIT /\ run.t_reset >= cfg.c_init)

\* PRECHARGE-ALL is issued with the longest c_init and max_delay 2
C37_Witness ==
    /\ CfgRule(cfg, run).cmd = CmdPALL
    /\ cfg.c_init = MaxCInit /\ MaxDelayOf(cfg) = 2
    /\ run.t_reset = MaxCInit + 1

Range(seq) == { seq[i] : i \in 1..Len(seq) }

SchedulerSafe ==
    \* tasks are started in the order they were added, each once
    /\ \A i \in 1..Len(sched.started) : sched.started[i] = i
    \* each task is reported done at most once, and only a started one
    /\ \A i, j \in 1..Len(sched.done) :
           i # j => sched.done[i] # sched.done[j]
    /\ Range(sched.done) \subseteq Range(sched.started)
    \* at each start the active tasks' threads summed to less than
    \* max_threads
    /\ Len(sched.load) = Len(sched.started)
    /\ \A i \in 1..Len(sched.load) : sched.load[i] < sched.max_threads
    \* finished() is true exactly when queue and active are both empty,
    \* which is when every task added has been started and reported done
    /\ finished(sched) <=> (sched.queue = <<>> /\ sched.active = <<>>)
    /\ finished(sched) <=> Range(sched.done) = 1..Len(sched.threads)
    /\ Range(sched.queue) = 1..Len(sched.threads) \ Range(sched.started)
    /\ Range(sched.active) = Range(sched.started) \ Range(sched.done)

\* C39: after any sequence of add_task and update calls the tasks have
\* been started in the order added, each started and reported done at
\* most once, each started with the active thread sum below max_threads,
\* and finished() is true exactly when queue and active are empty; with
\* max_threads >= 1, every started task exiting and update called
\* repeatedly, a scheduler that is not finished becomes finished.
C39_Scheduler ==
    /\ []SchedulerSafe
    /\ (sched.max_threads >= 1 /\ ~finished(sched)) ~> finished(sched)

\* all tasks are done, the second before the first, and one had to wait
\* for threads
C39_Witness ==
    /\ finished(sched)
    /\ Len(sched.done) = MaxTasks
    /\ sched.done[1] = 2
    /\ sched.max_threads = MaxThreads

====
